---- MODULE Spec2Model ----
(***************************************************************************)
(* A model of the ReAct agent of noframework/c: the response parser, the   *)
(* tool dispatcher and the agent loop (agent.c), the HTTP call it rests on *)
(* (http.c) and the string helpers of platform.c.                          *)
(*                                                                         *)
(* C strings are TLA+ strings; a char* that may be NULL is a tuple: <<>>   *)
(* is NULL and <<s>> points to the text s.  A position in a string is its  *)
(* 1-based index, Len(s)+1 is the terminating NUL and 0 is a NULL result   *)
(* of strstr.                                                              *)
(***************************************************************************)
EXTENDS Integers, Sequences, FiniteSets, TLC

VARIABLES pc, script, endreply, memory, memory_capacity, step, calls,
          reply, response, parsed, toolres, execs, final_answer, ret,
          call, out

\* call is the call under way, with its arguments, and out what a call of a
\* tools.c function returned.
vars == <<pc, script, endreply, memory, memory_capacity, step, calls,
          reply, response, parsed, toolres, execs, final_answer, ret,
          call, out>>

(***************************************************************************)
(* Program constants                                                       *)
(***************************************************************************)
MAX_STEPS == 50
MAX_MEMORY_SIZE == 100
INITIAL_CAPACITY == 10
ERROR_BUF == 256
USER_PROMPT_BUF == 2048

NULL == <<>>
Ptr(s) == <<s>>

(***************************************************************************)
(* libc and platform.c string helpers                                      *)
(***************************************************************************)
\* *(s + i - 1); the terminating NUL reads as "".
CharAt(s, i) == IF i \in 1..Len(s) THEN SubSeq(s, i, i) ELSE ""

\* strncmp(s + p - 1, lit, strlen(lit)) == 0
StartsAt(s, p, lit) ==
    p + Len(lit) - 1 <= Len(s) /\ SubSeq(s, p, p + Len(lit) - 1) = lit

isspace(c) == c \in {" ", "\t", "\n", "\r", "\f"}

Min(S) == CHOOSE i \in S : \A j \in S : i <= j

\* strstr(s + from - 1, needle): the position of the first occurrence at or
\* after from, 0 when there is none.
strstr(s, from, needle) ==
    LET hits == {i \in from..(Len(s) - Len(needle) + 1) : StartsAt(s, i, needle)}
    IN  IF hits = {} THEN 0 ELSE Min(hits)

\* The position of the first character at or after from that is in chars, 0
\* when there is none (strpbrk).
FirstIn(s, from, chars) ==
    LET hits == {i \in from..Len(s) : CharAt(s, i) \in chars}
    IN  IF hits = {} THEN 0 ELSE Min(hits)

\* while (*p && isspace(*p)) p++;
RECURSIVE SkipSpace(_, _)
SkipSpace(s, p) ==
    IF p <= Len(s) /\ isspace(CharAt(s, p)) THEN SkipSpace(s, p + 1) ELSE p

\* while (end > str && isspace(*end)) end--;
RECURSIVE TrimEnd(_, _, _)
TrimEnd(s, start, end) ==
    IF end > start /\ isspace(CharAt(s, end)) THEN TrimEnd(s, start, end - 1)
    ELSE end

string_trim(str) ==
    LET start == SkipSpace(str, 1)
    IN  IF start > Len(str) THEN ""
        ELSE SubSeq(str, start, TrimEnd(str, start, Len(str)))

string_starts_with(str, prefix) ==
    StartsAt(str, 1, prefix)

string_ends_with(str, suffix) ==
    /\ Len(suffix) <= Len(str)
    /\ SubSeq(str, Len(str) - Len(suffix) + 1, Len(str)) = suffix

\* snprintf(buf, size, "%s", s): at most size - 1 characters are stored.
Truncate(s, size) == IF Len(s) > size - 1 THEN SubSeq(s, 1, size - 1) ELSE s

(***************************************************************************)
(* agent_parse_response                                                    *)
(***************************************************************************)
final_answer_marker == "Final Answer:"
action_marker == "Action:"
input_marker == "Action Input:"

ParsedFinal(answer) ==
    [type |-> "RESPONSE_FINAL", action |-> NULL, action_input |-> NULL,
     final_answer |-> Ptr(answer)]

ParsedAction(name, input) ==
    [type |-> "RESPONSE_ACTION", action |-> name, action_input |-> Ptr(input),
     final_answer |-> NULL]

ParsedUnknown ==
    [type |-> "RESPONSE_UNKNOWN", action |-> NULL, action_input |-> NULL,
     final_answer |-> NULL]

\* Lines 219-230: the tool name, NULL when no line break follows.
ExtractAction(text, action_pos) ==
    LET start == SkipSpace(text, action_pos + Len(action_marker))
        action_end == strstr(text, start, "\n")
    IN  IF action_end # 0
        THEN Ptr(string_trim(SubSeq(text, start, action_end - 1)))
        ELSE NULL

\* Lines 232-247: the argument payload.
ExtractInput(text, input_pos) ==
    LET start == SkipSpace(text, input_pos + Len(input_marker))
        e1 == strstr(text, start, "\nThought:")
        e2 == IF e1 # 0 THEN e1 ELSE strstr(text, start, "\nAction:")
        e3 == IF e2 # 0 THEN e2 ELSE strstr(text, start, "\nObservation:")
        e4 == IF e3 # 0 THEN e3 ELSE strstr(text, start, "\nFinal Answer:")
        input_end == IF e4 # 0 THEN e4 ELSE Len(text) + 1
    IN  string_trim(SubSeq(text, start, input_end - 1))

\* Mutant: tool-call detection ahead of the Final Answer check.
agent_parse_response_ActionFirst(text) ==
    LET final_pos == strstr(text, 1, final_answer_marker)
        action_pos == strstr(text, 1, action_marker)
        input_pos == strstr(text, 1, input_marker)
    IN  IF action_pos # 0 /\ input_pos # 0 /\ input_pos > action_pos
        THEN ParsedAction(ExtractAction(text, action_pos),
                          ExtractInput(text, input_pos))
        ELSE IF final_pos # 0
        THEN LET p == SkipSpace(text, final_pos + Len(final_answer_marker))
             IN  ParsedFinal(SubSeq(text, p, Len(text)))
        ELSE ParsedUnknown

\* Mutant: both markers present is enough, whatever their order.
agent_parse_response_AnyOrder(text) ==
    LET final_pos == strstr(text, 1, final_answer_marker)
        action_pos == strstr(text, 1, action_marker)
        input_pos == strstr(text, 1, input_marker)
    IN  IF final_pos # 0
        THEN LET p == SkipSpace(text, final_pos + Len(final_answer_marker))
             IN  ParsedFinal(SubSeq(text, p, Len(text)))
        ELSE IF action_pos # 0 /\ input_pos # 0
        THEN ParsedAction(ExtractAction(text, action_pos),
                          ExtractInput(text, input_pos))
        ELSE ParsedUnknown

agent_parse_response(text) ==
    LET final_pos == strstr(text, 1, final_answer_marker)
        action_pos == strstr(text, 1, action_marker)
        input_pos == strstr(text, 1, input_marker)
    IN  IF final_pos # 0
        THEN LET p == SkipSpace(text, final_pos + Len(final_answer_marker))
             IN  ParsedFinal(SubSeq(text, p, Len(text)))
        ELSE IF action_pos # 0 /\ input_pos # 0 /\ input_pos > action_pos
        THEN ParsedAction(ExtractAction(text, action_pos),
                          ExtractInput(text, input_pos))
        ELSE ParsedUnknown

(***************************************************************************)
(* cJSON, as the agent uses it: cJSON_Parse reads one JSON value after     *)
(* leading whitespace and ignores whatever follows it;                     *)
(* cJSON_GetObjectItem compares keys without regard to case.  \u escapes   *)
(* and exponents are outside the texts the model feeds it.                 *)
(***************************************************************************)
JFail == [ok |-> FALSE, pos |-> 0, v |-> [t |-> "none"]]
JOk(p, val) == [ok |-> TRUE, pos |-> p, v |-> val]

Digits == {"0", "1", "2", "3", "4", "5", "6", "7", "8", "9"}

Unescape(e) ==
    CASE e = "n" -> "\n"
      [] e = "t" -> "\t"
      [] e = "r" -> "\r"
      [] e = "f" -> "\f"
      [] OTHER -> e

\* parse_string, from the character after the opening quote: up to the
\* first quote that no backslash escapes.
RECURSIVE parse_string(_, _, _)
parse_string(s, p, acc) ==
    LET q == FirstIn(s, p, {"\"", "\\"})
    IN  IF q = 0 THEN JFail
        ELSE IF CharAt(s, q) = "\""
             THEN JOk(q + 1, [t |-> "string", s |-> acc \o SubSeq(s, p, q - 1)])
        ELSE IF CharAt(s, q + 1) \in {"\"", "\\", "/", "n", "t", "r", "f"}
             THEN parse_string(s, q + 2,
                      acc \o SubSeq(s, p, q - 1) \o Unescape(CharAt(s, q + 1)))
        ELSE JFail

RECURSIVE SkipDigits(_, _)
SkipDigits(s, p) ==
    IF p <= Len(s) /\ CharAt(s, p) \in Digits THEN SkipDigits(s, p + 1) ELSE p

\* parse_number: an optional sign, digits, an optional fraction.
parse_number(s, p) ==
    LET d == IF CharAt(s, p) = "-" THEN p + 1 ELSE p
        e == SkipDigits(s, d)
        f == IF CharAt(s, e) = "." /\ SkipDigits(s, e + 1) > e + 1
             THEN SkipDigits(s, e + 1) ELSE e
    IN  IF e = d THEN JFail ELSE JOk(f, [t |-> "number"])

RECURSIVE parse_value(_, _), parse_array(_, _, _), parse_object(_, _, _)

parse_value(s, p) ==
    LET c == CharAt(s, p)
    IN  IF StartsAt(s, p, "null") THEN JOk(p + 4, [t |-> "null"])
        ELSE IF StartsAt(s, p, "false") THEN JOk(p + 5, [t |-> "false"])
        ELSE IF StartsAt(s, p, "true") THEN JOk(p + 4, [t |-> "true"])
        ELSE IF c = "\"" THEN parse_string(s, p + 1, "")
        ELSE IF c = "-" \/ c \in Digits THEN parse_number(s, p)
        ELSE IF c = "["
             THEN IF CharAt(s, SkipSpace(s, p + 1)) = "]"
                  THEN JOk(SkipSpace(s, p + 1) + 1,
                           [t |-> "array", items |-> <<>>])
                  ELSE parse_array(s, p + 1, <<>>)
        ELSE IF c = "{"
             THEN IF CharAt(s, SkipSpace(s, p + 1)) = "}"
                  THEN JOk(SkipSpace(s, p + 1) + 1,
                           [t |-> "object", items |-> <<>>])
                  ELSE parse_object(s, p + 1, <<>>)
        ELSE JFail

\* parse_array, from the position of an element.
parse_array(s, p, acc) ==
    LET r == parse_value(s, SkipSpace(s, p))
        q == SkipSpace(s, r.pos)
    IN  IF ~r.ok THEN JFail
        ELSE IF CharAt(s, q) = "," THEN parse_array(s, q + 1, Append(acc, r.v))
        ELSE IF CharAt(s, q) = "]"
             THEN JOk(q + 1, [t |-> "array", items |-> Append(acc, r.v)])
        ELSE JFail

\* parse_object, from the position of a key.
parse_object(s, p, acc) ==
    LET kp == SkipSpace(s, p)
        k == IF CharAt(s, kp) = "\"" THEN parse_string(s, kp + 1, "") ELSE JFail
        cp == SkipSpace(s, k.pos)
        r == IF k.ok /\ CharAt(s, cp) = ":"
             THEN parse_value(s, SkipSpace(s, cp + 1)) ELSE JFail
        q == SkipSpace(s, r.pos)
        item == [k |-> k.v.s, v |-> r.v]
    IN  IF ~r.ok THEN JFail
        ELSE IF CharAt(s, q) = "," THEN parse_object(s, q + 1, Append(acc, item))
        ELSE IF CharAt(s, q) = "}"
             THEN JOk(q + 1, [t |-> "object", items |-> Append(acc, item)])
        ELSE JFail

\* NULL when the text does not start with a JSON value.
cJSON_Parse(text) ==
    LET r == parse_value(text, SkipSpace(text, 1))
    IN  IF r.ok THEN Ptr(r.v) ELSE NULL

UpperCase == "ABCDEFGHIJKLMNOPQRSTUVWXYZ"
LowerCase == "abcdefghijklmnopqrstuvwxyz"

tolower(c) ==
    IF \E i \in 1..Len(UpperCase) : CharAt(UpperCase, i) = c
    THEN CharAt(LowerCase, CHOOSE i \in 1..Len(UpperCase) : CharAt(UpperCase, i) = c)
    ELSE c

case_insensitive_equal(a, b) ==
    /\ Len(a) = Len(b)
    /\ \A i \in 1..Len(a) : tolower(CharAt(a, i)) = tolower(CharAt(b, i))

\* The first member named name (case-insensitively); NULL for a NULL item,
\* a missing member or an item that is not an object.
cJSON_GetObjectItem(item, name) ==
    IF item = NULL \/ item[1].t # "object" THEN NULL
    ELSE LET its == item[1].items
             hits == {i \in 1..Len(its) : case_insensitive_equal(its[i].k, name)}
         IN  IF hits = {} THEN NULL ELSE Ptr(its[Min(hits)].v)

cJSON_IsString(item) == item # NULL /\ item[1].t = "string"
cJSON_IsArray(item) == item # NULL /\ item[1].t = "array"

\* cJSON_PrintUnformatted of a string: quotes, backslashes and control
\* characters are escaped.
RECURSIVE JsonEscape(_)
JsonEscape(s) ==
    LET q == FirstIn(s, 1, {"\"", "\\", "\n", "\t", "\r", "\f"})
        c == CharAt(s, q)
        e == CASE c = "\"" -> "\\\""
               [] c = "\\" -> "\\\\"
               [] c = "\n" -> "\\n"
               [] c = "\t" -> "\\t"
               [] c = "\r" -> "\\r"
               [] OTHER -> "\\f"
    IN  IF q = 0 THEN s
        ELSE SubSeq(s, 1, q - 1) \o e \o JsonEscape(SubSeq(s, q + 1, Len(s)))

PrintString(s) == "\"" \o JsonEscape(s) \o "\""

(***************************************************************************)
(* The file system the tools read: two trees, their entries in the order   *)
(* readdir reports them.  size is what ftell reports at the end of the     *)
(* file, nul the position of its first null byte (0: it has none) and      *)
(* content the bytes ahead of that null byte; for the files of about       *)
(* 10 MiB the text stands for that many bytes.                             *)
(***************************************************************************)
SIZE_CEILING == 10 * 1024 * 1024
PATH_BUF == 1024
LINE_BUF == 256

FsDir(parent, name) ==
    [path |-> parent \o "/" \o name, parent |-> parent, name |-> name,
     kind |-> "dir", size |-> 0, nul |-> 0, content |-> ""]

FsFile(parent, name, size, nul, content) ==
    [path |-> parent \o "/" \o name, parent |-> parent, name |-> name,
     kind |-> "file", size |-> size, nul |-> nul, content |-> content]

\* An entry that is neither a directory nor a regular file.
FsOther(parent, name) ==
    [path |-> parent \o "/" \o name, parent |-> parent, name |-> name,
     kind |-> "other", size |-> 0, nul |-> 0, content |-> ""]

\* A directory name of 240 characters and a file name of 60: four such
\* directories, one in the other, make a path of 969 characters.
LongDirName ==
    LET a == "dddddddddddddddddddddddddddddd"
    IN  a \o a \o a \o a \o a \o a \o a \o a
LongFileName == "ffffffffffffffffffffffffffffffffffffffffffffffffffffffffff.c"

Nested(n) ==
    IF n = 0 THEN "/long"
    ELSE IF n = 1 THEN "/long/" \o LongDirName
    ELSE IF n = 2 THEN "/long/" \o LongDirName \o "/" \o LongDirName
    ELSE IF n = 3 THEN "/long/" \o LongDirName \o "/" \o LongDirName
                       \o "/" \o LongDirName
    ELSE "/long/" \o LongDirName \o "/" \o LongDirName
         \o "/" \o LongDirName \o "/" \o LongDirName

FsRoots == {"/repo", "/data", "/long"}

FsTree ==
    << FsFile("/repo", "main.c", 7, 0, "int x;\n"),
       FsFile("/repo", ".gitignore", 32, 0, "# rules\nnode_modules\n\n  build  \n"),
       FsDir("/repo", "node_modules"),
       FsFile("/repo/node_modules", "dep.c", 2, 0, "d;"),
       FsFile("/repo", "README.md", 5, 0, "# doc"),
       FsDir("/repo", "src"),
       FsFile("/repo/src", "util.c", 2, 0, "u;"),
       FsDir("/repo/src", "deep"),
       FsFile("/repo/src/deep", "core.c", 2, 0, "c;"),
       FsDir("/repo/src/deep", "build"),
       FsFile("/repo/src/deep/build", "gen.c", 2, 0, "g;"),
       FsOther("/repo/src/deep", "agent.sock"),
       FsFile("/repo/src/deep", "core.md", 2, 0, "c."),
       FsFile("/repo/src", "rebuild.c", 2, 0, "r;"),
       FsFile("/repo/src", "notes.md", 2, 0, "n."),
       FsFile("/repo", "a.bin", 4, 3, "ab"),
       FsFile("/data", "empty.txt", 0, 0, ""),
       FsFile("/data", "one.txt", 1, 0, "1"),
       FsFile("/data", "nul_only.bin", 1, 1, ""),
       FsFile("/data", "nul_first.bin", 3, 1, ""),
       FsFile("/data", "nul_last.bin", 3, 3, "ab"),
       FsFile("/data", "under.txt", SIZE_CEILING - 1, 0, "under"),
       FsFile("/data", "exact.txt", SIZE_CEILING, 0, "exact"),
       FsFile("/data", "over.txt", SIZE_CEILING + 1, 0, "over"),
       FsFile("/data", "far_over.txt", 2 * SIZE_CEILING, 0, "far over"),
       FsFile("/data", "exact_nul_first.bin", SIZE_CEILING, 1, ""),
       FsFile("/data", "exact_nul_mid.bin", SIZE_CEILING, SIZE_CEILING \div 2, "mid"),
       FsFile("/data", "exact_nul_last.bin", SIZE_CEILING, SIZE_CEILING, "last"),
       FsFile("/data", "over_nul.bin", SIZE_CEILING + 1, 1, ""),
       FsDir(Nested(0), LongDirName),
       FsFile(Nested(1), "near.c", 2, 0, "n;"),
       FsDir(Nested(1), LongDirName),
       FsDir(Nested(2), LongDirName),
       FsDir(Nested(3), LongDirName),
       FsFile(Nested(4), "far.c", 2, 0, "f;"),
       FsFile(Nested(4), LongFileName, 2, 0, "l;") >>

IsDirEntry(e) == e.kind = "dir"
IsFileEntry(e) == e.kind = "file"

FsDirs == FsRoots \cup {FsTree[i].path : i \in {j \in 1..Len(FsTree) : IsDirEntry(FsTree[j])}}

FsFiles == SelectSeq(FsTree, IsFileEntry)

\* stat(path, &st) == 0 && S_ISDIR(st.st_mode)
platform_is_directory(path) == path \in FsDirs

(***************************************************************************)
(* tools.c                                                                 *)
(***************************************************************************)
\* fnmatch(pattern, filename, 0) == 0, for patterns of literals, * and ?.
RECURSIVE fnmatch(_, _)
fnmatch(pat, str) ==
    IF pat = "" THEN str = ""
    ELSE IF Head(pat) = "*"
         THEN fnmatch(Tail(pat), str) \/ (str # "" /\ fnmatch(pat, Tail(str)))
    ELSE /\ str # ""
         /\ Head(pat) = "?" \/ Head(pat) = Head(str)
         /\ fnmatch(Tail(pat), Tail(str))

\* Mutant: every pattern is a shell glob.
match_pattern_GlobOnly(filename, pat) == fnmatch(pat, filename)

match_pattern(filename, pat) ==
    IF pat = "*" \/ pat = "*.*" THEN TRUE
    ELSE IF string_starts_with(pat, "*.")
         THEN string_ends_with(filename, SubSeq(pat, 2, Len(pat)))
    ELSE fnmatch(pat, filename)

\* Lines 73-83: fgets reads up to the line break, at most 255 characters at
\* a time; a line is kept, trimmed, unless it is empty or starts with #.
RECURSIVE ReadPatterns(_, _, _)
ReadPatterns(text, p, acc) ==
    IF p > Len(text) THEN acc
    ELSE LET nl == strstr(text, p, "\n")
             full == IF p + LINE_BUF - 2 <= Len(text) THEN p + LINE_BUF - 2
                     ELSE Len(text)
             end == IF nl # 0 /\ nl <= full THEN nl ELSE full
             trimmed == string_trim(SubSeq(text, p, end))
         IN  ReadPatterns(text, end + 1,
                 IF Len(trimmed) > 0 /\ CharAt(trimmed, 1) # "#"
                 THEN Append(acc, trimmed) ELSE acc)

GitIgnorePath(directory) == Truncate(directory \o "/.gitignore", PATH_BUF)

\* NULL when the directory has no .gitignore, else the patterns in file order.
gitignore_load(directory) ==
    LET hits == {i \in 1..Len(FsFiles) : FsFiles[i].path = GitIgnorePath(directory)}
    IN  IF hits = {} THEN NULL
        ELSE Ptr(ReadPatterns(FsFiles[Min(hits)].content, 1, <<>>))

\* strtok(path, "/\\"): the non-empty runs between delimiters.
RECURSIVE Tokens(_, _, _)
Tokens(path, p, acc) ==
    IF p > Len(path) THEN acc
    ELSE IF CharAt(path, p) \in {"/", "\\"} THEN Tokens(path, p + 1, acc)
    ELSE LET d == FirstIn(path, p, {"/", "\\"})
             end == IF d = 0 THEN Len(path) ELSE d - 1
         IN  Tokens(path, end + 1, Append(acc, SubSeq(path, p, end)))

\* Mutant: the pattern has to end the path or to be one of its segments.
gitignore_should_ignore_SuffixOrSegment(ignore, path) ==
    IF ignore = NULL THEN FALSE
    ELSE \E i \in 1..Len(ignore[1]) :
            \/ string_ends_with(path, ignore[1][i])
            \/ \E k \in 1..Len(Tokens(path, 1, <<>>)) :
                  Tokens(path, 1, <<>>)[k] = ignore[1][i]

\* Mutant: only a whole path segment is compared with the pattern.
gitignore_should_ignore_SegmentOnly(ignore, path) ==
    IF ignore = NULL THEN FALSE
    ELSE \E i \in 1..Len(ignore[1]) :
            \E k \in 1..Len(Tokens(path, 1, <<>>)) :
                Tokens(path, 1, <<>>)[k] = ignore[1][i]

gitignore_should_ignore(ignore, path) ==
    IF ignore = NULL THEN FALSE
    ELSE \E i \in 1..Len(ignore[1]) :
            LET pattern == ignore[1][i]
            IN  \/ strstr(path, 1, pattern) # 0
                \/ string_ends_with(path, pattern)
                \/ \E k \in 1..Len(Tokens(path, 1, <<>>)) :
                      Tokens(path, 1, <<>>)[k] = pattern

\* Lines 183-187: the path relative to the base directory.
RECURSIVE SkipSlashes(_, _)
SkipSlashes(s, p) ==
    IF CharAt(s, p) \in {"/", "\\"} THEN SkipSlashes(s, p + 1) ELSE p

RelPath(full_path, base_dir) ==
    IF string_starts_with(full_path, base_dir)
    THEN LET p == SkipSlashes(full_path, Len(base_dir) + 1)
         IN  IF p > Len(full_path) THEN "" ELSE SubSeq(full_path, p, Len(full_path))
    ELSE full_path

\* opendir / readdir: the entries of a directory, "." and ".." left out.
DirEntries(directory) ==
    LET In(e) == e.parent = directory
    IN  SelectSeq(FsTree, In)

NoResults == [files |-> <<>>, opened |-> <<>>]

\* Lines 170-206.  results.files is the FileList; results.opened records the
\* directories opendir was called on, in call order.
RECURSIVE traverse_directory(_, _, _, _, _)
RECURSIVE VisitEntries(_, _, _, _, _, _)
VisitEntries(entries, directory, pat, results, gitignore, base_dir) ==
    IF entries = <<>> THEN results
    ELSE LET entry == Head(entries)
             full_path == Truncate(directory \o "/" \o entry.name, PATH_BUF)
             rel_path == RelPath(full_path, base_dir)
             after ==
                 IF gitignore # NULL /\ gitignore_should_ignore(gitignore, rel_path)
                 THEN results
                 ELSE IF full_path # entry.path THEN results
                 ELSE IF entry.kind = "dir"
                      THEN traverse_directory(full_path, pat, results, gitignore, base_dir)
                 ELSE IF entry.kind = "file" /\ match_pattern(entry.name, pat)
                      THEN [results EXCEPT !.files = Append(@, full_path)]
                 ELSE results
         IN  VisitEntries(Tail(entries), directory, pat, after, gitignore, base_dir)

traverse_directory(directory, pat, results, gitignore, base_dir) ==
    IF directory \notin FsDirs
    THEN [results EXCEPT !.opened = Append(@, directory)]
    ELSE VisitEntries(DirEntries(directory), directory, pat,
                      [results EXCEPT !.opened = Append(@, directory)],
                      gitignore, base_dir)

RECURSIVE JoinStrings(_)
JoinStrings(items) ==
    IF items = <<>> THEN ""
    ELSE IF Len(items) = 1 THEN PrintString(items[1])
    ELSE PrintString(items[1]) \o "," \o JoinStrings(Tail(items))

\* Mutant: no test of the directory ahead of the traversal.
FindRun_Unguarded(directory, pat) ==
    LET gitignore == gitignore_load(directory)
        results == traverse_directory(directory, pat, NoResults,
                                      gitignore, directory)
    IN  [result |-> "[" \o JoinStrings(results.files) \o "]",
         files |-> results.files,
         opened |-> results.opened,
         loaded |-> <<GitIgnorePath(directory)>>]

\* Lines 210-238, with what the call did besides: the directories it opened
\* and the ignore files it looked for.
FindRun(directory, pat) ==
    IF ~platform_is_directory(directory)
    THEN [result |-> "[]", files |-> <<>>, opened |-> <<>>, loaded |-> <<>>]
    ELSE LET gitignore == gitignore_load(directory)
             results == traverse_directory(directory, pat, NoResults,
                                           gitignore, directory)
         IN  [result |-> "[" \o JoinStrings(results.files) \o "]",
              files |-> results.files,
              opened |-> results.opened,
              loaded |-> <<GitIgnorePath(directory)>>]

find_all_matching_files(directory, pat) == FindRun(directory, pat).result

ErrorObject(msg) == "{\"error\":" \o PrintString(msg) \o "}"

\* Mutant: a file of exactly the ceiling is too large.
TooLarge_Inclusive(file_size) == file_size >= SIZE_CEILING

\* Line 258
TooLarge(file_size) == file_size > SIZE_CEILING

\* Lines 240-298.  fopen succeeds on the regular files of the tree.
read_file(file_path) ==
    LET hits == {i \in 1..Len(FsFiles) : FsFiles[i].path = file_path}
        f == FsFiles[Min(hits)]
    IN  IF hits = {} THEN ErrorObject("File not found")
        ELSE IF TooLarge(f.size) THEN ErrorObject("File too large")
        ELSE IF f.nul \in 1..f.size THEN ErrorObject("Cannot read binary file")
        ELSE "{\"file\":" \o PrintString(file_path) \o ",\"content\":"
             \o PrintString(f.content) \o "}"

\* agent.c calls read_file_content, which no file under src/ defines; it is
\* taken to be the read_file tool of tools.c.
read_file_content(file_path) == read_file(file_path)

(***************************************************************************)
(* agent_execute_tool: the set of outcomes of one call.  fault: the        *)
(* process died in the call; ran: the tool that was executed.              *)
(***************************************************************************)
ToolFault == [fault |-> TRUE, result |-> "", ran |-> "none"]
ToolOk(text, tool) == [fault |-> FALSE, result |-> text, ran |-> tool]

ParseErrorText == "{\"error\": \"Failed to parse input JSON\"}"
FilePathRequiredText == "{\"error\": \"file_path parameter required\"}"

\* Lines 291-293: snprintf into char error[256].
UnknownToolText(name) ==
    Truncate("{\"error\": \"Unknown tool: " \o name \o "\"}", ERROR_BUF)

\* Lines 274-294, for a tool name that is not NULL.
DispatchTool(name, input) ==
    IF name = "find_all_matching_files"
    THEN LET directory == cJSON_GetObjectItem(input, "directory")
             pat == cJSON_GetObjectItem(input, "pattern")
             dir_str == IF cJSON_IsString(directory) THEN directory[1].s ELSE ""
             pat_str == IF cJSON_IsString(pat) THEN pat[1].s ELSE "*"
         IN  ToolOk(find_all_matching_files(dir_str, pat_str),
                    "find_all_matching_files")
    ELSE IF name = "read_file"
    THEN LET file_path == cJSON_GetObjectItem(input, "file_path")
         IN  IF cJSON_IsString(file_path)
             THEN ToolOk(read_file_content(file_path[1].s), "read_file")
             ELSE ToolOk(FilePathRequiredText, "none")
    ELSE ToolOk(UnknownToolText(name), "none")

\* Line 264 passes tool_name to a "%s" of log_message, and line 274 to
\* strcmp: with a NULL name the first is undefined (libc prints "(null)" or
\* faults) and the second reads address 0.
\* Mutant: the tool is looked up before the payload is parsed.
agent_execute_tool_NameFirst(tool_name, action_input) ==
    LET input == cJSON_Parse(action_input)
    IN  {IF tool_name = NULL THEN ToolFault
         ELSE IF tool_name[1] \notin {"find_all_matching_files", "read_file"}
         THEN ToolOk(UnknownToolText(tool_name[1]), "none")
         ELSE IF input = NULL THEN ToolOk(ParseErrorText, "none")
         ELSE DispatchTool(tool_name[1], input)}

agent_execute_tool(tool_name, action_input) ==
    LET input == cJSON_Parse(action_input)
    IN  (IF tool_name = NULL THEN {ToolFault} ELSE {})
        \cup
        {IF input = NULL THEN ToolOk(ParseErrorText, "none")
         ELSE IF tool_name = NULL THEN ToolFault
         ELSE DispatchTool(tool_name[1], input)}

(***************************************************************************)
(* http.c and agent_call_llm.  A reply of the model endpoint is what curl  *)
(* reports: its result code, the HTTP status and the body received.        *)
(***************************************************************************)
\* Lines 88-106: NULL on a curl error; any HTTP status returns the body.
http_post_json(r) == IF r.curl # "CURLE_OK" THEN NULL ELSE Ptr(r.body)

\* Lines 172-187: choices[0].message.content when it is a string.
ExtractContent(json) ==
    LET choices == cJSON_GetObjectItem(json, "choices")
    IN  IF ~cJSON_IsArray(choices) \/ Len(choices[1].items) = 0 THEN NULL
        ELSE LET choice == Ptr(choices[1].items[1])
                 message == cJSON_GetObjectItem(choice, "message")
                 content == cJSON_GetObjectItem(message, "content")
             IN  IF cJSON_IsString(content) THEN Ptr(content[1].s) ELSE NULL

agent_call_llm(r) ==
    LET http_response == http_post_json(r)
    IN  IF http_response = NULL THEN NULL
        ELSE LET json == cJSON_Parse(http_response[1])
             IN  IF json = NULL THEN NULL ELSE ExtractContent(json)

(***************************************************************************)
(* agent_add_message                                                       *)
(***************************************************************************)
Message(role, content) == [role |-> role, content |-> content]

\* Mutant: the array grows only once it has overflowed.
GrownCapacity_Late(count, capacity) ==
    IF count > capacity THEN capacity * 2 ELSE capacity

\* Lines 128-131
GrownCapacity(count, capacity) ==
    IF count >= capacity THEN capacity * 2 ELSE capacity

AddedMessage(mem, role, content) == Append(mem, Message(role, content))

(***************************************************************************)
(* agent_run                                                               *)
(***************************************************************************)
REACT_SYSTEM_PROMPT ==
    "You are a technical documentation assistant that analyses codebases and generates comprehensive documentation.\n"
    \o "\n"
    \o "When given a directory path and a specific analysis request, you will:\n"
    \o "1. Explore the codebase structure to understand its organization\n"
    \o "2. Read relevant files to comprehend the implementation details\n"
    \o "3. Generate detailed technical documentation based on your analysis\n"
    \o "\n"
    \o "You have access to tools that help you explore and understand codebases:\n"
    \o "- find_all_matching_files: Find files matching patterns in directories\n"
    \o "- read_file: Read the contents of specific files\n"
    \o "\n"
    \o "Important guidelines:\n"
    \o "- Always start by exploring the directory structure to understand the codebase layout\n"
    \o "- Read files strategically based on the documentation needs\n"
    \o "- Pay attention to configuration files, main entry points, and key modules\n"
    \o "- Generate clear, well-structured documentation that would help developers understand the codebase\n"
    \o "\n"
    \o "Use the following format:\n"
    \o "\n"
    \o "Thought: I need to [describe what you need to do next]\n"
    \o "Action: [tool_name]\n"
    \o "Action Input: {\"param1\": \"value1\", \"param2\": \"value2\"}\n"
    \o "Observation: [tool output will be provided here]\n"
    \o "... (repeat Thought/Action/Action Input/Observation as needed)\n"
    \o "Thought: I now have enough information to generate the documentation\n"
    \o "Final Answer: [Your complete technical documentation]\n"
    \o "\n"
    \o "Begin your analysis now."

FallbackAnswer == "Failed to complete analysis"

\* Mutant: a step is not counted.
NextStep_Free(s) == s

\* Line 319: step++
NextStep(s) == s + 1

\* Mutant: one step too many.
LoopCondition_OffByOne(s) == s <= MAX_STEPS

\* Line 319: the loop test.
LoopCondition(s) == s < MAX_STEPS

\* Mutant: a failed call is tried again.
AfterCall_Retry(resp) == IF resp = NULL THEN "loop" ELSE "add"

\* Mutant: a completion is parsed without being added to the memory.
AfterCall_NoAppend(resp) == IF resp = NULL THEN "after" ELSE "parse"

\* Lines 324-327: break on a NULL response, else go on to line 332.
AfterCall(resp) == IF resp = NULL THEN "after" ELSE "add"

\* Mutant: no fallback for a run without a final answer.
ReturnValue_NoFallback(answer) == answer

\* Lines 359-364
ReturnValue(answer) == IF answer = NULL THEN Ptr(FallbackAnswer) ELSE answer

\* Lines 311-314: snprintf into char user_prompt[2048].
UserPrompt(directory, prompt) ==
    Truncate("Base directory for analysis: " \o directory \o "\n\n" \o prompt,
             USER_PROMPT_BUF)

\* Lines 348-349: snprintf into char obs_message[strlen(observation) + 20].
ObservationMessage(observation) ==
    Truncate("Observation: " \o observation, Len(observation) + 20)

(***************************************************************************)
(* The scripted model endpoint.  A script is a short cycle of replies; at  *)
(* any call the endpoint may leave the cycle for one of StickyReplies and  *)
(* then gives that reply to every later call.                              *)
(***************************************************************************)
MaxPattern == 2

HttpReply(code, body) == [curl |-> "CURLE_OK", http_code |-> code, body |-> body]

\* The body an OpenAI-compatible endpoint sends for a completion.
Wrap(completion) ==
    "{\"choices\":[{\"index\":0,\"message\":{\"role\":\"assistant\",\"content\":"
    \o PrintString(completion) \o "}}]}"

Completed(completion) == HttpReply(200, Wrap(completion))

UnrecognizedText == "I should look at the repository first."
FindCallText ==
    "Thought: list the sources\nAction: find_all_matching_files\n"
    \o "Action Input: {\"directory\": \"/repo\", \"pattern\": \"*.c\"}"
ReadCallText ==
    "Action: read_file\nAction Input: {\"file_path\": \"/repo/main.c\"}\n"
    \o "Observation: pending"
BadJsonCallText == "Action: read_file\nAction Input: {\"file_path\": "
ReversedCallText == "Action Input: {}\nAction: read_file\n"
NoLineBreakCallText == "Action: read_file Action Input: {}"
FinalText == "Thought: I now have enough\nFinal Answer: The documentation."
TrailingFinalText == "Final Answer: The documentation.\n"
ActionThenFinalText ==
    "Action: read_file\nAction Input: {\"file_path\": \"/repo/main.c\"}\n"
    \o "Final Answer:  "

CycleReplies ==
    { Completed(UnrecognizedText), Completed(ReversedCallText),
      Completed(FindCallText), Completed(ReadCallText),
      Completed(BadJsonCallText) }

FailureReplies ==
    { [curl |-> "CURLE_COULDNT_CONNECT", http_code |-> 0, body |-> ""],
      HttpReply(200, "<html>Bad Gateway</html>"),
      HttpReply(200, "{\"error\":{\"message\":\"quota exceeded\"}}"),
      HttpReply(200, "{\"choices\":[]}"),
      HttpReply(200, "{\"choices\":[{\"message\":{\"content\":null}}]}"),
      HttpReply(500, "{\"error\":{\"message\":\"internal error\"}}") }

StickyReplies ==
    FailureReplies \cup
    { Completed(FinalText), Completed(ActionThenFinalText),
      Completed(TrailingFinalText),
      Completed(NoLineBreakCallText),
      HttpReply(500, Wrap(FinalText)) }

Scripts == UNION {[1..n -> CycleReplies] : n \in 1..MaxPattern}

\* The replies the endpoint may give to the next call.
NextReplies ==
    IF endreply # NULL THEN {endreply[1]}
    ELSE {script[(calls % Len(script)) + 1]} \cup StickyReplies

Directories == {"/repo"}

\* The analysis prompt is the whole content of a file (main.c lines 104-110),
\* of any length: a short one, and one that is longer than user_prompt[2048].
ShortPrompt == "Document the build."
LongPrompt ==
    LET a == "Describe every module and every function of it. "
        b == a \o a \o a \o a
        c == b \o b \o b \o b
    IN  c \o c \o c
Prompts == {ShortPrompt, LongPrompt}

(***************************************************************************)
(* agent_run, one action per statement group of the function               *)
(***************************************************************************)
NoParsed == [type |-> "none", action |-> NULL, action_input |-> NULL,
             final_answer |-> NULL]
NoReply == [curl |-> "none", http_code |-> 0, body |-> ""]
NoToolRes == [fault |-> FALSE, result |-> "", ran |-> "none"]
NoCall == [fn |-> "none"]
NoOut == [fn |-> "none"]

\* agent_run(agent, prompt, directory)
AgentRunCall(directory, prompt) ==
    [fn |-> "agent_run", directory |-> directory, prompt |-> prompt]

Init ==
    /\ pc = "start"
    /\ script \in Scripts
    /\ endreply = NULL
    /\ memory = <<>>
    /\ memory_capacity = INITIAL_CAPACITY
    /\ step = 0
    /\ calls = 0
    /\ execs = 0
    /\ reply = NoReply
    /\ response = NULL
    /\ parsed = NoParsed
    /\ toolres = NoToolRes
    /\ final_answer = NULL
    /\ ret = NULL
    /\ call \in {AgentRunCall(d, p) : d \in Directories, p \in Prompts}
    /\ out = NoOut

\* Lines 309-316: the system and the user message.
Start ==
    /\ pc = "start"
    /\ memory' = AddedMessage(
                      AddedMessage(memory, "system", REACT_SYSTEM_PROMPT),
                      "user", UserPrompt(call.directory, call.prompt))
    /\ memory_capacity' =
          GrownCapacity(Len(memory) + 1, GrownCapacity(Len(memory), memory_capacity))
    /\ final_answer' = NULL
    /\ step' = 0
    /\ pc' = "loop"
    /\ UNCHANGED <<call, out, script, endreply, calls, execs, reply, response, parsed,
                   toolres, ret>>

\* Lines 319-327: the loop test and the model call; break when it fails.
CallLLM ==
    /\ pc = "loop"
    /\ LoopCondition(step)
    /\ \E r \in NextReplies :
          /\ reply' = r
          /\ endreply' = IF r \in StickyReplies THEN Ptr(r) ELSE endreply
          /\ response' = agent_call_llm(r)
    /\ calls' = calls + 1
    /\ pc' = AfterCall(response')
    /\ UNCHANGED <<call, out, script, memory, memory_capacity, step, execs, parsed,
                   toolres, final_answer, ret>>

\* Line 319: the step budget is used up.
LoopExit ==
    /\ pc = "loop"
    /\ ~LoopCondition(step)
    /\ pc' = "after"
    /\ UNCHANGED <<call, out, script, endreply, memory, memory_capacity, step, calls,
                   execs, reply, response, parsed, toolres, final_answer, ret>>

\* Line 332
AddAssistant ==
    /\ pc = "add"
    /\ memory' = AddedMessage(memory, "assistant", response[1])
    /\ memory_capacity' = GrownCapacity(Len(memory), memory_capacity)
    /\ pc' = "parse"
    /\ UNCHANGED <<call, out, script, endreply, step, calls, execs, reply, response,
                   parsed, toolres, final_answer, ret>>

\* Line 335
Parse ==
    /\ pc = "parse"
    /\ parsed' = agent_parse_response(response[1])
    /\ pc' = "dispatch"
    /\ UNCHANGED <<call, out, script, endreply, memory, memory_capacity, step, calls,
                   execs, reply, response, toolres, final_answer, ret>>

\* Lines 337-342
Final ==
    /\ pc = "dispatch"
    /\ parsed.type = "RESPONSE_FINAL"
    /\ final_answer' = parsed.final_answer
    /\ pc' = "after"
    /\ UNCHANGED <<call, out, script, endreply, memory, memory_capacity, step, calls,
                   execs, reply, response, parsed, toolres, ret>>

\* Lines 343-356: the tool call and its observation, then the next step.
ExecTool ==
    /\ pc = "dispatch"
    /\ parsed.type = "RESPONSE_ACTION"
    /\ \E o \in agent_execute_tool(parsed.action, parsed.action_input[1]) :
          /\ toolres' = o
          /\ IF o.fault
             THEN /\ pc' = "fault"
                  /\ UNCHANGED <<memory, memory_capacity, step>>
             ELSE /\ memory' = AddedMessage(memory, "user",
                                            ObservationMessage(o.result))
                  /\ memory_capacity' = GrownCapacity(Len(memory), memory_capacity)
                  /\ step' = NextStep(step)
                  /\ pc' = "loop"
    /\ execs' = execs + 1
    /\ UNCHANGED <<call, out, script, endreply, calls, reply, response, parsed,
                   final_answer, ret>>

\* Lines 354-356: neither a final answer nor a tool call.
Unknown ==
    /\ pc = "dispatch"
    /\ parsed.type = "RESPONSE_UNKNOWN"
    /\ step' = NextStep(step)
    /\ pc' = "loop"
    /\ UNCHANGED <<call, out, script, endreply, memory, memory_capacity, calls, execs,
                   reply, response, parsed, toolres, final_answer, ret>>

\* Lines 359-364
Return ==
    /\ pc = "after"
    /\ ret' = ReturnValue(final_answer)
    /\ pc' = "done"
    /\ UNCHANGED <<call, out, script, endreply, memory, memory_capacity, step, calls,
                   execs, reply, response, parsed, toolres, final_answer>>

Next ==
    \/ Start
    \/ CallLLM
    \/ LoopExit
    \/ AddAssistant
    \/ Parse
    \/ Final
    \/ ExecTool
    \/ Unknown
    \/ Return

Spec == Init /\ [][Next]_vars

(***************************************************************************)
(* agent_parse_response on its own: every text of up to MaxPieces pieces.  *)
(***************************************************************************)
MaxPieces == 4

Pieces ==
    { "Final Answer:", "Action:", "Action Input:", "Thought:", "\n", " ",
      "read_file", "{}" }

RECURSIVE ConcatAll(_)
ConcatAll(seq) == IF seq = <<>> THEN "" ELSE Head(seq) \o ConcatAll(Tail(seq))

ParseTexts == {ConcatAll(seq) : seq \in UNION {[1..n -> Pieces] : n \in 0..MaxPieces}}

\* Tool calls with what may follow the payload marker.
PayloadPieces ==
    { "{}", " ", "x", "\nThought:", "\nAction:", "\nObservation:",
      "\nAction Input:" }

ToolCallTexts ==
    { "Action: read_file\nAction Input:" \o ConcatAll(seq) :
          seq \in UNION {[1..n -> PayloadPieces] : n \in 0..MaxPieces} }

InitParse ==
    /\ pc = "parse"
    /\ response \in {Ptr(t) : t \in ParseTexts \cup ToolCallTexts}
    /\ script = <<>>
    /\ endreply = NULL
    /\ memory = <<>>
    /\ memory_capacity = INITIAL_CAPACITY
    /\ step = 0
    /\ calls = 0
    /\ execs = 0
    /\ reply = NoReply
    /\ parsed = NoParsed
    /\ toolres = NoToolRes
    /\ final_answer = NULL
    /\ ret = NULL
    /\ call = NoCall
    /\ out = NoOut

SpecParse == InitParse /\ [][Parse]_vars

(***************************************************************************)
(* agent_execute_tool on its own, as line 345 calls it: every tool name    *)
(* of ToolNames with every payload of Payloads.                            *)
(***************************************************************************)
X40 == "xxxxxxxxxxxxxxxxxxxxxxxxxxxxxxxxxxxxxxxx"
X240 == X40 \o X40 \o X40 \o X40 \o X40 \o X40

\* The longest tool name whose error text fits char error[256], and the
\* next longer one.
FittingName == SubSeq(X240, 1, ERROR_BUF - 1 - Len(UnknownToolText("")))
OverlongName == FittingName \o "x"

ToolNames ==
    { "find_all_matching_files", "read_file", "Read_File", "read_files",
      "list_dir", "", "say \"hi\"", FittingName, OverlongName }

UnparsablePayloads ==
    { "", "not json", "{\"file_path\": ", "{'file_path': '/repo/main.c'}",
      "{\"directory\": \"/repo\",}", "{\"file_path\" \"/repo/main.c\"}" }

ParsablePayloads ==
    { "{}", "[]", "null", "{\"pattern\": \"*.c\"}",
      "{\"directory\": \"/repo\", \"pattern\": \"*.md\"}",
      "{\"directory\": \"/nowhere\"}",
      "{\"file_path\": \"/repo/main.c\"}",
      "{\"file_path\": \"/repo/missing.c\"}",
      "{\"path\": \"/repo/main.c\"}",
      "{\"file_path\": 7}" }

Payloads == UnparsablePayloads \cup ParsablePayloads

InitTool ==
    /\ pc = "dispatch"
    /\ parsed \in {ParsedAction(Ptr(n), i) : n \in ToolNames, i \in Payloads}
    /\ script = <<>>
    /\ endreply = NULL
    /\ memory = <<Message("system", REACT_SYSTEM_PROMPT),
                  Message("user", UserPrompt("/repo", "Document the build."))>>
    /\ memory_capacity = INITIAL_CAPACITY
    /\ step = 0
    /\ calls = 1
    /\ execs = 0
    /\ reply = NoReply
    /\ response = NULL
    /\ toolres = NoToolRes
    /\ final_answer = NULL
    /\ ret = NULL
    /\ call = NoCall
    /\ out = NoOut

SpecTool == InitTool /\ [][ExecTool]_vars

(***************************************************************************)
(* The functions of tools.c on their own: one call of read_file,           *)
(* find_all_matching_files, match_pattern or gitignore_should_ignore.      *)
(***************************************************************************)
FilePaths ==
    {FsFiles[i].path : i \in 1..Len(FsFiles)}
    \cup {"/repo/missing.c", "", "/nowhere/main.c", "/data/exact.tx", "main.c"}

SearchDirectories ==
    { "/repo", "/repo/src", "/data", "/nowhere", "", "/repo/main.c",
      "/repo/missing", "repo", "/data/exact.txt", "/repo/node_modules",
      "/repo/src/deep", "/long" }

SearchPatterns ==
    {"*", "*.*", "*.c", "*.md", "main.c", "*.py", "?.bin", "*e*.c", "*.sock"}

FileNames ==
    { "x.md", "README", "main.c", ".gitignore", "a.b.c", "", "md", "x.mdx",
      "x.MD", ".md", "archive.tar.gz", "x.py", "x.pyc" }

MatchPatterns ==
    { "*", "*.*", "*.md", "*.py", "*.c", "*.", "*.tar.gz", "*.p?", "main.c",
      "m*", "?.md", "*md" }

IgnoreRulesets ==
    { NULL, Ptr(<<>>), Ptr(<<"node_modules">>), Ptr(<<"build">>),
      Ptr(<<"*.log">>), Ptr(<<"node_modules", "build">>), Ptr(<<".md">>),
      Ptr(<<"src/gen">>), Ptr(<<"a.js">>) }

IgnorePaths ==
    { "src/node_modules/a.js", "src/other/a.js", "node_modules", "build",
      "rebuild.c", "src\\build\\x.c", "a.log", "x/*.log", "README.md",
      "src/gen/x.c", "", "my_node_modules_backup/a.js", "src/build",
      "src/rebuild.c" }

ToolsCalls ==
    {[fn |-> "read_file", file_path |-> f] : f \in FilePaths}
    \cup {[fn |-> "find_all_matching_files", directory |-> d, pattern |-> q] :
             d \in SearchDirectories, q \in SearchPatterns}
    \cup {[fn |-> "match_pattern", filename |-> f, pattern |-> q] :
             f \in FileNames, q \in MatchPatterns}
    \cup {[fn |-> "gitignore_should_ignore", ignore |-> g, path |-> f] :
             g \in IgnoreRulesets, f \in IgnorePaths}

InitTools ==
    /\ pc = "call"
    /\ call \in ToolsCalls
    /\ out = NoOut
    /\ script = <<>>
    /\ endreply = NULL
    /\ memory = <<>>
    /\ memory_capacity = INITIAL_CAPACITY
    /\ step = 0
    /\ calls = 0
    /\ execs = 0
    /\ reply = NoReply
    /\ response = NULL
    /\ parsed = NoParsed
    /\ toolres = NoToolRes
    /\ final_answer = NULL
    /\ ret = NULL

ReadFile ==
    /\ pc = "call"
    /\ call.fn = "read_file"
    /\ out' = [fn |-> "read_file", result |-> read_file(call.file_path)]
    /\ pc' = "returned"
    /\ UNCHANGED <<call, script, endreply, memory, memory_capacity, step,
                   calls, execs, reply, response, parsed, toolres,
                   final_answer, ret>>

FindFiles ==
    /\ pc = "call"
    /\ call.fn = "find_all_matching_files"
    /\ out' = [fn |-> "find_all_matching_files",
               result |-> find_all_matching_files(call.directory, call.pattern),
               files |-> FindRun(call.directory, call.pattern).files,
               opened |-> FindRun(call.directory, call.pattern).opened,
               loaded |-> FindRun(call.directory, call.pattern).loaded]
    /\ pc' = "returned"
    /\ UNCHANGED <<call, script, endreply, memory, memory_capacity, step,
                   calls, execs, reply, response, parsed, toolres,
                   final_answer, ret>>

MatchPattern ==
    /\ pc = "call"
    /\ call.fn = "match_pattern"
    /\ out' = [fn |-> "match_pattern",
               result |-> match_pattern(call.filename, call.pattern)]
    /\ pc' = "returned"
    /\ UNCHANGED <<call, script, endreply, memory, memory_capacity, step,
                   calls, execs, reply, response, parsed, toolres,
                   final_answer, ret>>

ShouldIgnore ==
    /\ pc = "call"
    /\ call.fn = "gitignore_should_ignore"
    /\ out' = [fn |-> "gitignore_should_ignore",
               result |-> gitignore_should_ignore(call.ignore, call.path)]
    /\ pc' = "returned"
    /\ UNCHANGED <<call, script, endreply, memory, memory_capacity, step,
                   calls, execs, reply, response, parsed, toolres,
                   final_answer, ret>>

NextTools ==
    \/ ReadFile
    \/ FindFiles
    \/ MatchPattern
    \/ ShouldIgnore

SpecTools == InitTools /\ [][NextTools]_vars

(***************************************************************************)
(* agent_add_message on its own: after agent_create, a sequence of calls   *)
(* whose roles follow a short cycle chosen at the start.                   *)
(***************************************************************************)
MaxMessages == 45
MaxRoleCycle == 3

Roles == {"system", "user", "assistant"}

RoleCycles == UNION {[1..n -> Roles] : n \in 1..MaxRoleCycle}

\* The content of the n-th message added.
ContentOf(n) == IF n % 2 = 0 THEN "Observation: []" ELSE "Thought: go on"

InitMemory ==
    /\ pc = "memory"
    /\ call \in {[fn |-> "agent_add_message", roles |-> c] : c \in RoleCycles}
    /\ out = NoOut
    /\ script = <<>>
    /\ endreply = NULL
    /\ memory = <<>>
    /\ memory_capacity = INITIAL_CAPACITY
    /\ step = 0
    /\ calls = 0
    /\ execs = 0
    /\ reply = NoReply
    /\ response = NULL
    /\ parsed = NoParsed
    /\ toolres = NoToolRes
    /\ final_answer = NULL
    /\ ret = NULL

\* Lines 127-136: one call of agent_add_message.
AddMessage ==
    /\ pc = "memory"
    /\ Len(memory) < MaxMessages
    /\ memory' = AddedMessage(memory,
                              call.roles[(Len(memory) % Len(call.roles)) + 1],
                              ContentOf(Len(memory)))
    /\ memory_capacity' = GrownCapacity(Len(memory), memory_capacity)
    /\ UNCHANGED <<pc, call, out, script, endreply, step, calls, execs, reply,
                   response, parsed, toolres, final_answer, ret>>

SpecMemory == InitMemory /\ [][AddMessage]_vars

(***************************************************************************)
(* What the claims speak of                                                *)
(***************************************************************************)
Contains(text, marker) == \E i \in 1..Len(text) : StartsAt(text, i, marker)

\* The position of the first occurrence of marker, 0 when there is none.
FirstPos(text, marker) ==
    IF Contains(text, marker)
    THEN Min({i \in 1..Len(text) : StartsAt(text, i, marker)})
    ELSE 0

\* The state of the loop in the words of the design: RUNNING, DONE, FAILED.
LoopState ==
    IF pc \in {"after", "done"}
    THEN IF final_answer # NULL THEN "DONE" ELSE "FAILED"
    ELSE IF pc = "fault" THEN "CRASHED" ELSE "RUNNING"

Assistants == SelectSeq(memory, LAMBDA m : m.role = "assistant")
Observations ==
    SelectSeq(memory, LAMBDA m : m.role = "user"
                                 /\ string_starts_with(m.content, "Observation: "))

UnrecognizedReplies == {Completed(UnrecognizedText), Completed(ReversedCallText)}
ToolCallReplies ==
    { Completed(FindCallText), Completed(ReadCallText),
      Completed(BadJsonCallText), Completed(NoLineBreakCallText) }
FinalReplies == {Completed(FinalText), Completed(ActionThenFinalText)}

\* C1: a completion that contains "Final Answer:" anywhere parses as
\* FinalAnswer, whatever Action: / Action Input: text stands around it.
C1_FinalAnswerWins ==
    (pc = "dispatch" /\ Contains(response[1], "Final Answer:"))
        => parsed.type = "RESPONSE_FINAL"

\* A text with Action:, then Action Input:, then Final Answer: was parsed.
C1_Witness ==
    /\ pc = "dispatch"
    /\ 0 < FirstPos(response[1], "Action:")
    /\ FirstPos(response[1], "Action:") < FirstPos(response[1], "Action Input:")
    /\ FirstPos(response[1], "Action Input:") < FirstPos(response[1], "Final Answer:")
    /\ parsed.type = "RESPONSE_FINAL"

\* C7: without a Final Answer: marker, a completion whose first Action:
\* stands after its first Action Input: parses as Unrecognized.
C7_ReversedIsUnrecognized ==
    ( /\ pc = "dispatch"
      /\ ~Contains(response[1], "Final Answer:")
      /\ 0 < FirstPos(response[1], "Action Input:")
      /\ FirstPos(response[1], "Action Input:") < FirstPos(response[1], "Action:") )
        => parsed = ParsedUnknown

\* "Action Input:{}\nAction:" and the like were parsed.
C7_Witness ==
    /\ pc = "dispatch"
    /\ ~Contains(response[1], "Final Answer:")
    /\ 0 < FirstPos(response[1], "Action Input:")
    /\ FirstPos(response[1], "Action Input:") < FirstPos(response[1], "Action:")
    /\ Contains(response[1], "\n")
    /\ parsed.type = "RESPONSE_UNKNOWN"

\* The endpoint has followed a cycle of Unrecognized completions so far.
OnlyUnrecognized ==
    /\ endreply = NULL
    /\ \A i \in DOMAIN script : script[i] \in UnrecognizedReplies

\* C2: when every completion parses as Unrecognized, the run makes exactly
\* MAX_STEPS model calls, never more at any moment and never fewer when the
\* loop is left, ends FAILED and returns the fallback text.
C2_UnrecognizedExhaustsBudget ==
    OnlyUnrecognized =>
        /\ calls <= MAX_STEPS
        /\ pc # "fault"
        /\ execs = 0
        /\ pc \in {"after", "done"} =>
              /\ calls = MAX_STEPS
              /\ LoopState = "FAILED"
              /\ Len(Assistants) = MAX_STEPS
        /\ pc = "done" => ret = Ptr(FallbackAnswer)

\* A run of Unrecognized completions has returned.
C2_Witness ==
    /\ OnlyUnrecognized
    /\ pc = "done"
    /\ calls = MAX_STEPS
    /\ ret = Ptr(FallbackAnswer)
    /\ \A i \in 1..Len(Assistants) :
          agent_parse_response(Assistants[i].content).type = "RESPONSE_UNKNOWN"

\* The endpoint has given tool-call completions only, or tool-call
\* completions and then one with a Final Answer.
ToolCallsThenFinal ==
    /\ \A i \in DOMAIN script : script[i] \in ToolCallReplies
    /\ endreply = NULL \/ endreply[1] \in ToolCallReplies \cup FinalReplies

\* The text after the first "Final Answer:" of a completion, less leading
\* whitespace.
AnswerOf(completion) ==
    LET p == FirstPos(completion, "Final Answer:") + Len("Final Answer:")
    IN  SubSeq(completion, SkipSpace(completion, p), Len(completion))

\* memory is the two seed messages, k (assistant, observation) pairs and,
\* when last is set, one more assistant message.
PairedMemory(k, last) ==
    /\ Len(memory) = 2 + 2 * k + (IF last THEN 1 ELSE 0)
    /\ memory[1].role = "system" /\ memory[2].role = "user"
    /\ \A i \in 1..k :
          /\ memory[1 + 2 * i].role = "assistant"
          /\ agent_parse_response(memory[1 + 2 * i].content).type = "RESPONSE_ACTION"
          /\ memory[2 + 2 * i].role = "user"
          /\ \E o \in agent_execute_tool(
                          agent_parse_response(memory[1 + 2 * i].content).action,
                          agent_parse_response(memory[1 + 2 * i].content).action_input[1]) :
                 ~o.fault /\ memory[2 + 2 * i].content = "Observation: " \o o.result
    /\ last => memory[Len(memory)].role = "assistant"

\* C3: k tool-call completions and then a completion with Final Answer: T
\* end the run in DONE after exactly k + 1 model calls, returning T, with
\* memory holding the k (assistant, observation) pairs in order; no tool
\* call on the way stops the run.
C3_ToolCallsThenFinal ==
    ToolCallsThenFinal =>
        /\ pc # "fault"
        /\ (pc = "done" /\ endreply # NULL /\ endreply[1] \in FinalReplies) =>
              /\ LoopState = "DONE"
              /\ calls = execs + 1
              /\ ret = Ptr(AnswerOf(memory[Len(memory)].content))
              /\ PairedMemory(execs, TRUE)

\* The scenario of the design: find_all_matching_files, read_file, Final
\* Answer gives three model calls and two observations.
C3_Scenario ==
    ( /\ script = <<Completed(FindCallText), Completed(ReadCallText)>>
      /\ endreply = Ptr(Completed(FinalText))
      /\ calls = 3
      /\ pc = "done" )
        => /\ LoopState = "DONE"
           /\ ret = Ptr("The documentation.")
           /\ Len(Observations) = 2
           /\ PairedMemory(2, TRUE)

\* C4: what agent_run returns is the FinalAnswer payload of the completion
\* that ended the loop, or the fallback text; never NULL or another text.
C4_ReturnsAnswerOrFallback ==
    pc = "done" =>
        /\ ret # NULL
        /\ \/ ret = Ptr(FallbackAnswer) /\ LoopState = "FAILED"
           \/ /\ LoopState = "DONE"
              /\ memory[Len(memory)].role = "assistant"
              /\ Contains(memory[Len(memory)].content, "Final Answer:")
              /\ ret = Ptr(AnswerOf(memory[Len(memory)].content))

\* A run has returned a final answer after tool calls were made.
C4_Witness ==
    /\ pc = "done"
    /\ execs > 0
    /\ LoopState = "DONE"
    /\ ret = Ptr("The documentation.")

\* C5: a failed model call takes the loop to FAILED at once: no assistant
\* message for it, no further call, and the fallback text is returned.
C5_FailedCallIsFatal ==
    reply \in FailureReplies =>
        /\ response = NULL
        /\ pc \in {"after", "done"}
        /\ LoopState = "FAILED"
        /\ Len(Assistants) = calls - 1
        /\ pc = "done" => ret = Ptr(FallbackAnswer)

\* A call after the first has failed and the run has returned.
C5_Witness ==
    /\ reply \in FailureReplies
    /\ reply.curl = "CURLE_OK"
    /\ calls > 1
    /\ pc = "done"
    /\ ret = Ptr(FallbackAnswer)

\* C6: a model call answered with a non-2xx status is fatal to the run,
\* whatever its body holds.
C6_Non2xxIsFatal ==
    (reply.curl = "CURLE_OK" /\ reply.http_code \notin 200..299) =>
        /\ response = NULL
        /\ pc \in {"after", "done"}
        /\ LoopState = "FAILED"
        /\ pc = "done" => ret = Ptr(FallbackAnswer)

RegisteredTools == {"find_all_matching_files", "read_file"}

\* The call of line 345 has been made for the tool call in parsed.
Dispatched == pc \in {"loop", "fault"} /\ parsed.type = "RESPONSE_ACTION"

LastMessage == memory[Len(memory)]

\* text is one JSON object and nothing else, with a string member "error".
IsErrorObject(text) ==
    LET r == parse_value(text, 1)
    IN  /\ r.ok
        /\ r.pos = Len(text) + 1
        /\ r.v.t = "object"
        /\ cJSON_IsString(cJSON_GetObjectItem(Ptr(r.v), "error"))

ErrorMessageOf(text) == cJSON_GetObjectItem(cJSON_Parse(text), "error")[1].s

\* C8: for every tool name, a payload the dispatcher cannot parse as JSON
\* gives exactly {"error": "Failed to parse input JSON"}: no tool runs,
\* nothing faults, and the loop goes on with that text as the observation.
C8_UnparsableInputIsParseError ==
    ( /\ Dispatched
      /\ parsed.action # NULL
      /\ cJSON_Parse(parsed.action_input[1]) = NULL )
        => /\ toolres = ToolOk("{\"error\": \"Failed to parse input JSON\"}", "none")
           /\ pc = "loop"
           /\ LoopState = "RUNNING"
           /\ step = 1
           /\ Len(memory) = 3
           /\ LastMessage = Message("user",
                  "Observation: {\"error\": \"Failed to parse input JSON\"}")

\* read_file was called with a payload that is not JSON.
C8_Witness ==
    /\ Dispatched
    /\ parsed.action = Ptr("read_file")
    /\ parsed.action_input[1] \in UnparsablePayloads
    /\ cJSON_Parse(parsed.action_input[1]) = NULL
    /\ toolres.result = ParseErrorText

\* C9: a tool name other than the two registered ones, with a parsable
\* payload, runs no tool and gives a well-formed {"error": ...} object
\* whose message holds the whole name, whatever the name.
C9_UnknownToolIsNamed ==
    ( /\ Dispatched
      /\ parsed.action # NULL
      /\ parsed.action[1] \notin RegisteredTools
      /\ cJSON_Parse(parsed.action_input[1]) # NULL )
        => /\ ~toolres.fault
           /\ toolres.ran = "none"
           /\ IsErrorObject(toolres.result)
           /\ Contains(ErrorMessageOf(toolres.result), parsed.action[1])
                 \/ parsed.action[1] = ""

MissingDirectoryPayloads == {"{}", "{\"pattern\": \"*.c\"}"}
MissingFilePathPayloads == {"{}", "{\"path\": \"/repo/main.c\"}"}

\* C10: a registered tool called with a parsable payload that lacks its
\* required field gives an {"error": ...} object as the observation.
C10_MissingFieldIsError ==
    ( /\ Dispatched
      /\ \/ /\ parsed.action = Ptr("find_all_matching_files")
            /\ parsed.action_input[1] \in MissingDirectoryPayloads
         \/ /\ parsed.action = Ptr("read_file")
            /\ parsed.action_input[1] \in MissingFilePathPayloads )
        => /\ ~toolres.fault
           /\ IsErrorObject(toolres.result)
           /\ LastMessage = Message("user", "Observation: " \o toolres.result)

\* The part of C10 that read_file bears out.
C10_ReadFileMissingPath ==
    ( /\ Dispatched
      /\ parsed.action = Ptr("read_file")
      /\ parsed.action_input[1] \in MissingFilePathPayloads )
        => /\ toolres = ToolOk("{\"error\": \"file_path parameter required\"}", "none")
           /\ LastMessage = Message("user", "Observation: " \o toolres.result)

(***************************************************************************)
(* read_file                                                               *)
(***************************************************************************)
Returned(fn) == pc = "returned" /\ call.fn = fn

\* The files of the tree fopen can open at path.
FilesAt(path) == {i \in 1..Len(FsTree) : FsTree[i].path = path /\ FsTree[i].kind = "file"}

FileAt(path) == FsTree[CHOOSE i \in FilesAt(path) : TRUE]

\* text is one JSON object with the string members file and content.
IsFileObject(text, file, content) ==
    LET r == parse_value(text, 1)
    IN  /\ r.ok
        /\ r.pos = Len(text) + 1
        /\ r.v.t = "object"
        /\ Len(r.v.items) = 2
        /\ cJSON_GetObjectItem(Ptr(r.v), "file") = Ptr([t |-> "string", s |-> file])
        /\ cJSON_GetObjectItem(Ptr(r.v), "content") = Ptr([t |-> "string", s |-> content])

IsErrorOf(text, reason) == IsErrorObject(text) /\ ErrorMessageOf(text) = reason

\* C11: read_file gives {file, content} for a null-free file of up to
\* 10 * 1024 * 1024 bytes, that size included, `File too large` for a file
\* of one byte more (or any larger size), `Cannot read binary file` for a
\* file within the ceiling that has a null byte at any position, and
\* `File not found` for a path that cannot be opened; it always returns.
C11_ReadFileCeiling ==
    Returned("read_file") =>
        LET path == call.file_path
            f == FileAt(path)
        IN  IF FilesAt(path) = {}
            THEN IsErrorOf(out.result, "File not found")
            ELSE IF f.size >= 10 * 1024 * 1024 + 1
            THEN IsErrorOf(out.result, "File too large")
            ELSE IF f.nul # 0
            THEN IsErrorOf(out.result, "Cannot read binary file")
            ELSE IsFileObject(out.result, path, f.content)

\* A null-free file of exactly the ceiling has been read.
C11_Witness ==
    /\ Returned("read_file")
    /\ FilesAt(call.file_path) # {}
    /\ FileAt(call.file_path).size = 10 * 1024 * 1024
    /\ FileAt(call.file_path).nul = 0
    /\ IsFileObject(out.result, call.file_path, FileAt(call.file_path).content)

(***************************************************************************)
(* find_all_matching_files                                                 *)
(***************************************************************************)
\* path names a directory of the tree.
DirectoryExists(path) ==
    \/ path \in {"/repo", "/data", "/long"}
    \/ \E i \in 1..Len(FsTree) : FsTree[i].path = path /\ FsTree[i].kind = "dir"

\* C12: for a directory argument that does not exist or is not a directory,
\* find_all_matching_files returns the text [] whatever the pattern, having
\* opened no directory and looked for no ignore file.
C12_MissingDirectoryIsEmpty ==
    (Returned("find_all_matching_files") /\ ~DirectoryExists(call.directory)) =>
        /\ out.result = "[]"
        /\ out.opened = <<>>
        /\ out.loaded = <<>>

\* The call has returned for a path that is a regular file, not a directory.
C12_Witness ==
    /\ Returned("find_all_matching_files")
    /\ call.directory = "/repo/main.c"
    /\ call.pattern = "*.c"
    /\ FilesAt(call.directory) # {}
    /\ out.result = "[]"

(***************************************************************************)
(* The seed of the conversation                                            *)
(***************************************************************************)
SystemMessages == {i \in 1..Len(memory) : memory[i].role = "system"}

\* C13 (the part that holds): once a model call has been made, the first
\* message is the ReAct prompt with role system, the second has role user,
\* and no other message has role system.
C13_SystemThenUser ==
    calls >= 1 =>
        /\ Len(memory) >= 2
        /\ memory[1] = [role |-> "system", content |-> REACT_SYSTEM_PROMPT]
        /\ memory[2].role = "user"
        /\ SystemMessages = {1}

\* C13: in every state of a run in which a model call has been made, memory
\* starts with the one system message, the ReAct prompt, then a user
\* message that embeds the directory and the prompt of the run, and holds
\* no other system message.
C13_SeededMemory ==
    calls >= 1 =>
        /\ Len(memory) >= 2
        /\ memory[1] = [role |-> "system", content |-> REACT_SYSTEM_PROMPT]
        /\ memory[2].role = "user"
        /\ Contains(memory[2].content, call.directory)
        /\ Contains(memory[2].content, call.prompt)
        /\ SystemMessages = {1}

(***************************************************************************)
(* The observation of a tool call                                          *)
(***************************************************************************)
\* The step that handles a tool call appends the observation: one user
\* message, `Observation: ` and then the result of the dispatcher, right
\* after the assistant message of the completion, with no model call in
\* between, and the loop goes on.
ObservationStep ==
    /\ memory[Len(memory)] = [role |-> "assistant", content |-> response[1]]
    /\ memory' = Append(memory, [role |-> "user",
                                 content |-> "Observation: " \o toolres'.result])
    /\ calls' = calls
    /\ LoopState' = "RUNNING"

\* C14: whenever a completion parses as a tool call, its step appends
\* exactly one user message, `Observation: ` followed by the dispatcher's
\* result unchanged, right after the assistant message and before the next
\* model call, and the loop stays RUNNING.
C14_ToolCallAppendsObservation ==
    [][(pc = "dispatch" /\ parsed.type = "RESPONSE_ACTION") => ObservationStep]_vars

\* C14 for the tool calls whose name the parser could isolate.
C14_NamedToolCallAppendsObservation ==
    [][(pc = "dispatch" /\ parsed.type = "RESPONSE_ACTION" /\ parsed.action # NULL)
          => ObservationStep]_vars

(***************************************************************************)
(* The growth of the memory                                                *)
(***************************************************************************)
RECURSIVE IsDoublingOfTen(_)
IsDoublingOfTen(n) ==
    IF n = 10 THEN TRUE
    ELSE IF n < 10 \/ n % 2 = 1 THEN FALSE
    ELSE IsDoublingOfTen(n \div 2)

\* C15: every call of agent_add_message makes the memory one message
\* longer, leaves every earlier message in its place with its role and
\* content, leaves the capacity as it was or doubles it, and ends with the
\* count within the capacity, which is one of 10, 20, 40, ...
C15_MemoryGrowsByOne ==
    [][ /\ Len(memory') = Len(memory) + 1
        /\ \A i \in 1..Len(memory) : memory'[i] = memory[i]
        /\ memory_capacity' \in {memory_capacity, 2 * memory_capacity}
        /\ Len(memory') <= memory_capacity'
        /\ IsDoublingOfTen(memory_capacity') ]_vars

\* The memory has grown past two doublings and keeps its first messages.
C15_Witness ==
    /\ pc = "memory"
    /\ Len(memory) = 41
    /\ memory_capacity = 80
    /\ memory[1].role = "assistant"
    /\ memory[2].role = "system"

(***************************************************************************)
(* match_pattern                                                           *)
(***************************************************************************)
\* text ends with the characters of suffix.
EndsWith(text, suffix) ==
    \E i \in 1..(Len(text) + 1) :
        /\ Len(text) - i + 1 = Len(suffix)
        /\ \A k \in 1..Len(suffix) : CharAt(text, i + k - 1) = CharAt(suffix, k)

\* pat is *.<ext>, and not the match-all pattern *.*
IsExtensionPattern(pat) ==
    /\ Len(pat) >= 2
    /\ CharAt(pat, 1) = "*"
    /\ CharAt(pat, 2) = "."
    /\ pat # "*.*"

\* C16: every filename matches * and *.*, and a filename matches a pattern
\* of the shape *.<ext> exactly when it ends with .<ext>; x.md matches *.md
\* and does not match *.py.
C16_PatternMatches ==
    Returned("match_pattern") =>
        /\ call.pattern \in {"*", "*.*"} => out.result = TRUE
        /\ IsExtensionPattern(call.pattern) =>
              (out.result = EndsWith(call.filename, Tail(call.pattern)))
        /\ (call.filename = "x.md" /\ call.pattern = "*.md") => out.result = TRUE
        /\ (call.filename = "x.md" /\ call.pattern = "*.py") => out.result = FALSE

\* A name without a dot has been matched against *.*
C16_Witness ==
    /\ Returned("match_pattern")
    /\ call.filename = "README"
    /\ call.pattern = "*.*"
    /\ out.result = TRUE

(***************************************************************************)
(* gitignore_should_ignore                                                 *)
(***************************************************************************)
IsDelimiter(c) == c \in {"/", "\\"}

\* path has a segment, between delimiters or the ends of the path, that is
\* pat.
HasSegment(path, pat) ==
    \E i \in 1..Len(path) : \E j \in i..Len(path) :
        /\ j - i + 1 = Len(pat)
        /\ \A k \in i..j : CharAt(path, k) = CharAt(pat, k - i + 1)
                           /\ ~IsDelimiter(CharAt(path, k))
        /\ i = 1 \/ IsDelimiter(CharAt(path, i - 1))
        /\ j = Len(path) \/ IsDelimiter(CharAt(path, j + 1))

RuleApplies(pat, path) ==
    \/ Contains(path, pat)
    \/ EndsWith(path, pat)
    \/ HasSegment(path, pat)

\* C17: a path is ignored exactly when some pattern of the ruleset is a
\* substring of it, or its end, or one of its segments; with the one pattern
\* node_modules, src/node_modules/a.js is ignored and src/other/a.js is not;
\* without a ruleset nothing is ignored.
C17_IgnoredWhenRuleApplies ==
    Returned("gitignore_should_ignore") =>
        /\ call.ignore = NULL => out.result = FALSE
        /\ call.ignore # NULL =>
              (out.result = (\E i \in 1..Len(call.ignore[1]) :
                                RuleApplies(call.ignore[1][i], call.path)))
        /\ (call.ignore = Ptr(<<"node_modules">>)
               /\ call.path = "src/node_modules/a.js") => out.result = TRUE
        /\ (call.ignore = Ptr(<<"node_modules">>)
               /\ call.path = "src/other/a.js") => out.result = FALSE

\* The path with the segment node_modules has been found ignored.
C17_Witness ==
    /\ Returned("gitignore_should_ignore")
    /\ call.ignore = Ptr(<<"node_modules">>)
    /\ call.path = "src/node_modules/a.js"
    /\ HasSegment(call.path, "node_modules")
    /\ out.result = TRUE

(***************************************************************************)
(* The name and the payload of a tool call                                 *)
(***************************************************************************)
\* The completion that parsed holds the outcome of.
ParsedText == response[1]

HasParsed == pc \in {"dispatch", "loop", "fault"} /\ response # NULL

\* The position of the first line break at or after p, 0 when there is none.
LineBreakFrom(text, p) ==
    IF \E i \in p..Len(text) : CharAt(text, i) = "\n"
    THEN Min({i \in p..Len(text) : CharAt(text, i) = "\n"})
    ELSE 0

AfterMarker(text, marker) == FirstPos(text, marker) + Len(marker)

\* C18: a completion with Action: and later Action Input: but no line break
\* after Action: parses as a tool call whose name is a text, not an absent
\* name, and the loop handles it with an observation, not a fault.
C18_NoLineBreakIsWellDefined ==
    (/\ HasParsed
     /\ parsed.type = "RESPONSE_ACTION"
     /\ LineBreakFrom(ParsedText, AfterMarker(ParsedText, "Action:")) = 0)
    => /\ parsed.action # NULL
       /\ pc # "fault"

PayloadEndMarkers == {"\nThought:", "\nAction:", "\nObservation:", "\nFinal Answer:"}

\* The positions at or after p where one of the end markers starts.
EndMarkersFrom(text, p) ==
    {i \in p..Len(text) : \E m \in PayloadEndMarkers : StartsAt(text, i, m)}

\* The text from p up to the earliest end marker, or to the end of the text.
UpToEarliestMarker(text, p) ==
    LET end == IF EndMarkersFrom(text, p) = {} THEN Len(text)
               ELSE Min(EndMarkersFrom(text, p)) - 1
    IN  IF end < p THEN "" ELSE SubSeq(text, p, end)

\* C19: the payload of a tool call is the trimmed text from just after
\* Action Input: up to the earliest following \nThought:, \nAction:,
\* \nObservation: or \nFinal Answer:, whichever of them it is, or up to the
\* end of the text when none follows.
C19_PayloadEndsAtEarliestMarker ==
    (HasParsed /\ parsed.type = "RESPONSE_ACTION") =>
        parsed.action_input =
            Ptr(string_trim(UpToEarliestMarker(ParsedText,
                                AfterMarker(ParsedText, "Action Input:"))))

\* C20: the name of a tool call is the trimmed text between Action: and the
\* next line break after it; when only spaces stand between the two, the
\* name is empty and holds nothing of the following line.
C20_NameEndsAtLineBreak ==
    (/\ HasParsed
     /\ parsed.type = "RESPONSE_ACTION"
     /\ LineBreakFrom(ParsedText, AfterMarker(ParsedText, "Action:")) # 0)
    => LET from == AfterMarker(ParsedText, "Action:")
           to == LineBreakFrom(ParsedText, from)
       IN  parsed.action =
               Ptr(IF to = from THEN ""
                   ELSE string_trim(SubSeq(ParsedText, from, to - 1)))

(***************************************************************************)
(* The payload of a final answer                                           *)
(***************************************************************************)
\* The text after the first Final Answer: of the completion.
AfterFinalMarker ==
    LET from == AfterMarker(ParsedText, "Final Answer:")
    IN  IF from > Len(ParsedText) THEN ""
        ELSE SubSeq(ParsedText, from, Len(ParsedText))

\* text without the whitespace at its start.
RECURSIVE WithoutLeadingSpace(_)
WithoutLeadingSpace(text) ==
    IF text # "" /\ Head(text) \in {" ", "\t", "\n", "\r", "\f"}
    THEN WithoutLeadingSpace(Tail(text))
    ELSE text

HasFinal == response # NULL /\ parsed.type = "RESPONSE_FINAL"

\* C21: the payload of a final answer is the text after the first
\* Final Answer: with the whitespace at its start and at its end removed,
\* and agent_run returns that payload.
C21_FinalAnswerIsTrimmed ==
    HasFinal =>
        /\ parsed.final_answer = Ptr(string_trim(AfterFinalMarker))
        /\ pc = "done" => ret = Ptr(string_trim(AfterFinalMarker))

\* C21 as the code has it: only the whitespace at the start is removed.
C21_FinalAnswerIsLeftTrimmed ==
    HasFinal =>
        /\ parsed.final_answer = Ptr(WithoutLeadingSpace(AfterFinalMarker))
        /\ pc = "done" => ret = Ptr(WithoutLeadingSpace(AfterFinalMarker))

(***************************************************************************)
(* The assistant message of a completion                                   *)
(***************************************************************************)
CompletionTexts ==
    { UnrecognizedText, ReversedCallText, FindCallText, ReadCallText,
      BadJsonCallText, NoLineBreakCallText, FinalText, TrailingFinalText,
      ActionThenFinalText }

\* The reply carries the completion text t in choices[0].message.content.
Carries(r, t) == r.curl = "CURLE_OK" /\ r.body = Wrap(t)

AssistantCount(mem) == Cardinality({i \in 1..Len(mem) : mem[i].role = "assistant"})

\* C22: a model call that yields a completion is followed, before the
\* completion is parsed, by the append of exactly one assistant message
\* whose content is the completion text as the endpoint sent it, whether it
\* is a tool call, unrecognized or a final answer; no other step adds an
\* assistant message.
C22_RawCompletionAppended ==
    [][ /\ (calls' = calls + 1 /\ response' # NULL) =>
              /\ pc' = "add"
              /\ memory' = memory
              /\ \E t \in CompletionTexts : Carries(reply', t)
        /\ pc = "add" =>
              /\ \A t \in CompletionTexts :
                    Carries(reply, t) =>
                        memory' = Append(memory, [role |-> "assistant", content |-> t])
              /\ AssistantCount(memory') = AssistantCount(memory) + 1
              /\ parsed' = parsed
              /\ pc' = "parse"
        /\ pc # "add" => AssistantCount(memory') = AssistantCount(memory)
        /\ (pc' = "parse" /\ pc # "parse") => pc = "add" ]_vars

\* The second completion of a run, a final answer after an unrecognized
\* one, stands in the memory as it was sent and is about to be parsed.
C22_Witness ==
    /\ pc = "parse"
    /\ calls = 2
    /\ Carries(reply, FinalText)
    /\ memory[Len(memory)] = [role |-> "assistant", content |-> FinalText]
    /\ memory[Len(memory) - 1] = [role |-> "assistant", content |-> UnrecognizedText]

(***************************************************************************)
(* An unrecognized completion                                              *)
(***************************************************************************)
\* C23: the step of a completion that parses as Unrecognized has added the
\* assistant message of that completion and adds nothing else to the
\* memory, runs no tool, uses up exactly one step of the budget and leaves
\* the loop RUNNING.
C23_UnrecognizedOnlyCostsAStep ==
    [][(pc = "dispatch" /\ parsed.type = "RESPONSE_UNKNOWN") =>
          /\ memory[Len(memory)] = [role |-> "assistant", content |-> response[1]]
          /\ memory' = memory
          /\ execs' = execs
          /\ toolres' = toolres
          /\ calls' = calls
          /\ step' = step + 1
          /\ final_answer' = final_answer
          /\ LoopState' = "RUNNING" ]_vars

\* An unrecognized completion has been passed over in the second step: the
\* memory still ends with its assistant message.
C23_Witness ==
    /\ pc = "loop"
    /\ step = 2
    /\ calls = 2
    /\ parsed.type = "RESPONSE_UNKNOWN"
    /\ memory[Len(memory)] = [role |-> "assistant", content |-> ReversedCallText]
    /\ LoopState = "RUNNING"

(***************************************************************************)
(* traverse_directory                                                      *)
(***************************************************************************)
\* path lies under the directory root.
IsUnder(path, root) == StartsAt(path, 1, root \o "/")

\* The path of an entry under root, relative to root.
RelativeTo(path, root) == SubSeq(path, Len(root) + 2, Len(path))

\* The relative paths of the entry rel and of the directories above it.
SelfAndAncestors(rel) ==
    {SubSeq(rel, 1, k) : k \in {j \in 1..Len(rel) :
                                   j = Len(rel) \/ CharAt(rel, j + 1) = "/"}}

\* The ignore filter rules skips the relative path rel.
IsIgnored(rules, rel) ==
    rules # NULL /\ \E i \in 1..Len(rules[1]) : RuleApplies(rules[1][i], rel)

\* The filename matches the pattern, as C16 has it.
NameMatches(name, pat) ==
    IF pat \in {"*", "*.*"} THEN TRUE
    ELSE IF IsExtensionPattern(pat) THEN EndsWith(name, Tail(pat))
    ELSE fnmatch(pat, name)

\* Neither the entry at path nor a directory between it and root is ignored.
IsVisited(path, root, rules) ==
    /\ IsUnder(path, root)
    /\ \A rel \in SelfAndAncestors(RelativeTo(path, root)) : ~IsIgnored(rules, rel)

\* The entries of the tree, in visit order, that satisfy Keep.
PathsOf(entries) == [i \in 1..Len(entries) |-> entries[i].path]

ExpectedFiles(root, pat, rules) ==
    LET Keep(e) == /\ e.kind = "file"
                   /\ IsVisited(e.path, root, rules)
                   /\ NameMatches(e.name, pat)
    IN  PathsOf(SelectSeq(FsTree, Keep))

ExpectedDirs(root, rules) ==
    LET Keep(e) == e.kind = "dir" /\ IsVisited(e.path, root, rules)
    IN  <<root>> \o PathsOf(SelectSeq(FsTree, Keep))

\* C24: the traversal of an existing directory collects exactly the regular
\* files under it whose name matches the pattern and whose own relative
\* path, like that of every directory above them, is not ignored; it opens
\* no ignored directory; the paths come in the order of the visit.
C24_TraversalCollectsVisibleMatches ==
    (Returned("find_all_matching_files") /\ DirectoryExists(call.directory)) =>
        LET rules == gitignore_load(call.directory)
        IN  /\ out.files = ExpectedFiles(call.directory, call.pattern, rules)
            /\ out.opened = ExpectedDirs(call.directory, rules)

\* C24 for the trees whose paths fit the path buffer of the traversal.
C24_ShortPathsCollected ==
    (Returned("find_all_matching_files") /\ DirectoryExists(call.directory)
        /\ call.directory # "/long") =>
        LET rules == gitignore_load(call.directory)
        IN  /\ out.files = ExpectedFiles(call.directory, call.pattern, rules)
            /\ out.opened = ExpectedDirs(call.directory, rules)

\* The walk of /repo for *.c has gone two levels down and has left out the
\* files under node_modules and build, and src/rebuild.c.
C24_Witness ==
    /\ Returned("find_all_matching_files")
    /\ call.directory = "/repo"
    /\ call.pattern = "*.c"
    /\ out.files = <<"/repo/main.c", "/repo/src/util.c", "/repo/src/deep/core.c">>
    /\ out.opened = <<"/repo", "/repo/src", "/repo/src/deep">>

(***************************************************************************)
(* The bounds of one run                                                   *)
(***************************************************************************)
ObservationCount(mem) ==
    Cardinality({i \in 1..Len(mem) : mem[i].role = "user"
                                     /\ StartsAt(mem[i].content, 1, "Observation: ")})

\* The counts of one run, in every state after the memory has been seeded.
RunCounts ==
    /\ calls <= 50
    /\ pc # "start" =>
          /\ ObservationCount(memory) <= AssistantCount(memory)
          /\ Len(memory) = 2 + AssistantCount(memory) + ObservationCount(memory)
          /\ Len(memory) <= 102

\* A step without model call, tool execution or append.
NothingMore ==
    /\ calls' = calls
    /\ execs' = execs
    /\ memory' = memory

\* C25: a run makes at most 50 model calls, holds no more observations
\* than assistant messages and 2 + assistants + observations <= 102
\* messages in all, and once the loop is DONE or FAILED there is no further
\* model call, tool execution or append; the count passes 100, the value
\* of MAX_MEMORY_SIZE, without any effect.
C25_RunIsBounded ==
    /\ []RunCounts
    /\ [][(LoopState \in {"DONE", "FAILED"}) => NothingMore]_vars

\* A run of 50 tool calls has filled the memory with 102 messages, two more
\* than MAX_MEMORY_SIZE, and has ended FAILED.
C25_Witness ==
    /\ pc = "done"
    /\ LoopState = "FAILED"
    /\ calls = 50
    /\ execs = 50
    /\ Len(memory) = 102
    /\ Len(memory) > MAX_MEMORY_SIZE
    /\ AssistantCount(memory) = 50
    /\ ObservationCount(memory) = 50

(***************************************************************************)
(* gitignore_should_ignore as a substring test                             *)
(***************************************************************************)
\* pat occurs in path: at some position all its characters follow.
OccursIn(pat, path) ==
    \E i \in 1..(Len(path) - Len(pat) + 1) :
        \A k \in 1..Len(pat) : CharAt(path, i + k - 1) = CharAt(pat, k)

\* C26: gitignore_should_ignore is true exactly when a pattern of the
\* ruleset occurs in the path as a substring; the tests for the end of the
\* path and for a path segment add nothing, and a pattern also excludes a
\* path where it stands inside a longer name: build ignores src/rebuild.c.
C26_IgnoreIsSubstringTest ==
    Returned("gitignore_should_ignore") =>
        /\ out.result = (/\ call.ignore # NULL
                         /\ \E i \in 1..Len(call.ignore[1]) :
                               OccursIn(call.ignore[1][i], call.path))
        /\ (call.ignore = Ptr(<<"build">>) /\ call.path = "src/rebuild.c")
              => out.result = TRUE

\* src/rebuild.c has been found ignored under the one pattern build, which
\* neither ends the path nor is one of its segments.
C26_Witness ==
    /\ Returned("gitignore_should_ignore")
    /\ call.ignore = Ptr(<<"build">>)
    /\ call.path = "src/rebuild.c"
    /\ ~EndsWith(call.path, "build")
    /\ ~HasSegment(call.path, "build")
    /\ out.result = TRUE

====
